---- MODULE Spec2Model ----
(***************************************************************************)
(* Model of the sales-bonus report: calculateSimpleRevenue,                *)
(* calculateBonusByProfit, round2 and analyzeSalesData, as written in      *)
(* src/src/main.js and in src/unnamed/part_000.  The two files hold two    *)
(* versions of the same functions; the variable impl says which one runs.  *)
(*                                                                         *)
(* Money is fixed point: an integer number of millionths of a currency     *)
(* unit, so that a price in cents, a percent discount and the bonus rates  *)
(* are all exact.  A JavaScript value is [t, n]: a number n, NaN, or the   *)
(* string made of the source text of the Object function followed by the   *)
(* decimal digits n.                                                       *)
(***************************************************************************)
EXTENDS Integers, Sequences, FiniteSets, TLC

VARIABLES
    call,          \* the function invoked and, for calculateBonusByProfit, its arguments
    impl,          \* the source file whose code runs: "main" or "part"
    data,          \* analyzeSalesData's first argument
    options,       \* analyzeSalesData's second argument
    pc,            \* position inside the invoked function
    error,         \* the exception thrown, "none" while there is none
    sellerStats,   \* the seller accumulators, in array order
    ri,            \* number of purchase records the outer forEach has finished
    record,        \* the purchase record being processed: seller_id, number of items
    ii,            \* number of line items of record the inner forEach has finished
    item,          \* the line item processed last
    recordRevenue, \* the record-local revenue subtotal
    objectCtor,    \* properties the pass has written on the global Object function
    calls,         \* invocations of the strategies: revenue count and bonus arguments
    matched,       \* history: records read so far whose seller_id is listed in data.sellers
    sold,          \* history: per listed seller id and catalogue SKU, the quantity read so far
    ret            \* the value returned

vars == <<call, impl, data, options, pc, error, sellerStats, ri, record, ii, item,
          recordRevenue, objectCtor, calls, matched, sold, ret>>

-----------------------------------------------------------------------------
(* Bounds of the model *)

MaxSellers == 2
MaxRecords == 1
MaxItems == 1
MaxRank == 5

(* Program constant: .slice(0, 10) *)
TopN == 10

-----------------------------------------------------------------------------
(* JavaScript values *)

Unit == 1000 * 1000
Cent == Unit \div 100

Num(n) == [t |-> "num", n |-> n]
NaN == [t |-> "NaN", n |-> 0]
Str(n) == [t |-> "str", n |-> n]
Undefined == [t |-> "undefined", n |-> 0]

IsNum(x) == x.t = "num"

\* a + b: with a string operand the result is the concatenation
Add(a, b) ==
    IF a.t = "str" /\ b.t = "num" THEN Str(a.n * 10 + b.n)
    ELSE IF IsNum(a) /\ IsNum(b) THEN Num(a.n + b.n)
    ELSE NaN

\* a - b: both operands are converted to numbers
Sub(a, b) == IF IsNum(a) /\ IsNum(b) THEN Num(a.n - b.n) ELSE NaN

\* a >= b of the language: false as soon as an operand converts to NaN
Geq(a, b) == IsNum(a) /\ IsNum(b) /\ a.n >= b.n

Abs(n) == IF n < 0 THEN -n ELSE n

\* +num.toFixed(2): the nearest multiple of 0.01, a tie going away from zero
ToFixed2(x) ==
    IF ~IsNum(x) THEN NaN
    ELSE LET q == (Abs(x.n) + Cent \div 2) \div Cent
         IN  Num(IF x.n < 0 THEN -(q * Cent) ELSE q * Cent)

round2(num) == ToFixed2(num)

IsCents(x) == IsNum(x) /\ x.n % Cent = 0

-----------------------------------------------------------------------------
(* The strategies *)

\* purchase: [sku, quantity, sale_price, discount], sale_price in millionths
calculateSimpleRevenue(purchase, product) ==
    LET fullPrice == purchase.sale_price * purchase.quantity
    IN  Num((fullPrice * (100 - purchase.discount)) \div 100)

\* profit * (percent / 100), the product taken in two parts so that it stays within
\* the checker's 32-bit integers
Times(profit, percent) ==
    IF IsNum(profit)
    THEN Num((profit.n \div 100) * percent + ((profit.n % 100) * percent) \div 100)
    ELSE NaN

\* the tiers with the last-place test moved to the front
calculateBonusByProfit_LastFirst(index, total, profit) ==
    IF index = total - 1 THEN Num(0)
    ELSE IF index = 0 THEN Times(profit, 15)
    ELSE IF index = 1 \/ index = 2 THEN Times(profit, 10)
    ELSE Times(profit, 5)

calculateBonusByProfit(index, total, profit) ==
    IF index = 0 THEN Times(profit, 15)
    ELSE IF index = 1 \/ index = 2 THEN Times(profit, 10)
    ELSE IF index = total - 1 THEN Num(0)
    ELSE Times(profit, 5)

-----------------------------------------------------------------------------
(* The arguments the model draws *)

Seller(id) == [id |-> id, first_name |-> "Ann", last_name |-> id]
SellerIds == {"s1", "s2"}

Product(sku, cents) == [sku |-> sku, purchase_price |-> cents * Cent]
\* the catalogue lists the SKU "A" twice, with two purchase prices
Catalog == <<Product("A", 80), Product("A", 50), Product("B", 200)>>

\* "constructor" stands for the property names every object inherits from
\* Object.prototype; "s9" and "Z" name no seller and no product
ProtoKeys == {"constructor"}
CatalogSkus == {Catalog[k].sku : k \in DOMAIN Catalog}
RecordSellerIds == SellerIds \cup {"s9"} \cup ProtoKeys

Item(sku, quantity, cents, discount) ==
    [sku |-> sku, quantity |-> quantity, sale_price |-> cents * Cent,
     discount |-> discount]
\* revenue 0.945 and profit 0.445 for "A", revenue 1.89 and profit -2.11 for "B"
Items ==
    { Item("A", 1, 105, 10), Item("B", 2, 105, 10), Item("Z", 1, 105, 10),
      Item("constructor", 1, 105, 0) }

NoItem == [sku |-> "", quantity |-> 0, sale_price |-> 0, discount |-> 0]
NoRecord == [seller_id |-> "", length |-> 0]

SeqsUpTo(S, n) == UNION {[1..k -> S] : k \in 0..n}

\* the identifiers are interchangeable: the seller listed first is called "s1"
SellerSeqs == {ids \in SeqsUpTo(SellerIds, MaxSellers) : ids = <<>> \/ ids[1] = "s1"}

\* shape: "missing" (undefined or null), "notarray", or "array" with its elements;
\* the elements of purchase_records are read one by one during the pass, so that
\* collection carries its length only
Coll(shape, elems) == [shape |-> shape, elems |-> elems]
SellerColls ==
    {Coll("missing", <<>>), Coll("notarray", <<>>)}
        \cup {Coll("array", [k \in DOMAIN ids |-> Seller(ids[k])]) :
                ids \in SellerSeqs}
ProductColls ==
    {Coll("missing", <<>>), Coll("notarray", <<>>)} \cup {Coll("array", <<>>), Coll("array", Catalog)}
RecordColls ==
    {[shape |-> "missing", length |-> 0], [shape |-> "notarray", length |-> 0]}
        \cup {[shape |-> "array", length |-> n] : n \in 0..MaxRecords}

NoData == [present |-> FALSE, sellers |-> Coll("missing", <<>>),
           products |-> Coll("missing", <<>>),
           purchase_records |-> [shape |-> "missing", length |-> 0]]
Datas ==
    {NoData} \cup
    [present : {TRUE}, sellers : SellerColls, products : ProductColls,
     purchase_records : RecordColls]

\* a member of options: "absent", "notfn" (any value that is not a function) or
\* "fn" (the function of that name in the file's own options object)
Members == {"absent", "notfn", "fn"}
NoOptions == [shape |-> "missing", calculateRevenue |-> "absent", calculateBonus |-> "absent"]
Optionses ==
    {NoOptions, [NoOptions EXCEPT !.shape = "nonobject"]} \cup
    [shape : {"object"}, calculateRevenue : Members, calculateBonus : Members]

BonusProfits == {Num(c * Cent) : c \in {50000, 30000, 10000, 5000, 1, -333}}
AnalyzeCall == [fn |-> "analyzeSalesData", index |-> 0, total |-> 0, profit |-> Num(0)]
BonusCalls ==
    [fn : {"calculateBonusByProfit"}, index : 0..MaxRank, total : 1..(MaxRank + 1),
     profit : BonusProfits]

NoCalls == [revenue |-> 0, bonus |-> <<>>]
NoReturn == [kind |-> "none", value |-> Num(0), report |-> <<>>]

-----------------------------------------------------------------------------
(* analyzeSalesData: validation *)

IsEmptyOrNotArray(c) == c.shape # "array" \/ Len(c.elems) = 0

\* the validation without its products clause
InvalidData_SkipsProducts(d) ==
    \/ ~d.present
    \/ IsEmptyOrNotArray(d.sellers)
    \/ d.purchase_records.shape # "array" \/ d.purchase_records.length = 0

InvalidData(d) ==
    \/ ~d.present
    \/ IsEmptyOrNotArray(d.sellers)
    \/ IsEmptyOrNotArray(d.products)
    \/ d.purchase_records.shape # "array" \/ d.purchase_records.length = 0

OptionsNotObject(o) == o.shape # "object"

\* the validation that looks at calculateRevenue only
InvalidOptions_RevenueOnly(o) == o.calculateRevenue # "fn"

InvalidOptions(o) == o.calculateRevenue # "fn" \/ o.calculateBonus # "fn"

Init ==
    /\ impl \in {"main", "part"}
    /\ \/ /\ call = AnalyzeCall
          /\ data \in Datas
          /\ options \in Optionses
       \/ /\ call \in BonusCalls
          /\ data = NoData
          /\ options = NoOptions
    /\ pc = "start"
    /\ error = "none"
    /\ sellerStats = <<>>
    /\ ri = 0
    /\ record = NoRecord
    /\ ii = 0
    /\ item = NoItem
    /\ recordRevenue = Num(0)
    /\ objectCtor = {}
    /\ calls = NoCalls
    /\ matched = 0
    /\ sold = [x \in SellerIds \X CatalogSkus |-> 0]
    /\ ret = NoReturn

Throw(e) ==
    /\ pc' = "thrown"
    /\ error' = e
    /\ UNCHANGED <<call, impl, data, options, sellerStats, ri, record, ii, item,
                   recordRevenue, objectCtor, calls, matched, sold, ret>>

ThrowInvalidInput ==
    /\ call.fn = "analyzeSalesData" /\ pc = "start"
    /\ InvalidData(data)
    /\ Throw("InvalidInput")

ThrowOptionsNotObject ==
    /\ call.fn = "analyzeSalesData" /\ pc = "start"
    /\ ~InvalidData(data)
    /\ OptionsNotObject(options)
    /\ Throw("OptionsNotObject")

ThrowInvalidOptions ==
    /\ call.fn = "analyzeSalesData" /\ pc = "start"
    /\ ~InvalidData(data)
    /\ ~OptionsNotObject(options)
    /\ InvalidOptions(options)
    /\ Throw("InvalidOptions")

NewStats(seller) ==
    [id |-> seller.id, name |-> <<seller.first_name, " ", seller.last_name>>,
     revenue |-> Num(0), profit |-> Num(0), sales_count |-> 0,
     products_sold |-> <<>>, bonus |-> Undefined, top_products |-> <<>>]

\* one accumulator per distinct identifier instead of one per listed seller
InitialStats_Distinct(sellers) ==
    LET firsts == {k \in DOMAIN sellers :
                    \A j \in 1..(k - 1) : sellers[j].id # sellers[k].id}
        nth(i) == CHOOSE k \in firsts : Cardinality({j \in firsts : j <= k}) = i
    IN  [i \in 1..Cardinality(firsts) |-> NewStats(sellers[nth(i)])]

\* data.sellers.map(seller => ({...}))
InitialStats(sellers) == [k \in DOMAIN sellers |-> NewStats(sellers[k])]

Prepare ==
    /\ call.fn = "analyzeSalesData" /\ pc = "start"
    /\ ~InvalidData(data)
    /\ ~OptionsNotObject(options)
    /\ ~InvalidOptions(options)
    /\ sellerStats' = InitialStats(data.sellers.elems)
    /\ pc' = "records"
    /\ UNCHANGED <<call, impl, data, options, error, ri, record, ii, item,
                   recordRevenue, objectCtor, calls, matched, sold, ret>>

CallBonus ==
    /\ call.fn = "calculateBonusByProfit" /\ pc = "start"
    /\ ret' = [kind |-> "value",
               value |-> calculateBonusByProfit(call.index, call.total, call.profit),
               report |-> <<>>]
    /\ pc' = "done"
    /\ UNCHANGED <<call, impl, data, options, error, sellerStats, ri, record, ii, item,
                   recordRevenue, objectCtor, calls, matched, sold>>

-----------------------------------------------------------------------------
(* analyzeSalesData: the indexes *)

\* obj[key] of an object built by Object.fromEntries from the keys, in order: a later
\* entry replaces an earlier one with the same key, and a key the object does not own
\* is looked up in Object.prototype
IndexLookup(keys, key) ==
    LET own == {k \in DOMAIN keys : keys[k] = key}
    IN  IF own # {}
        THEN [kind |-> "own", pos |-> CHOOSE k \in own : \A j \in own : j <= k]
        ELSE IF key \in ProtoKeys THEN [kind |-> "inherited", pos |-> 0]
        ELSE [kind |-> "undefined", pos |-> 0]

sellerIndex(id) == IndexLookup([k \in DOMAIN sellerStats |-> sellerStats[k].id], id)

productIndex(sku) ==
    IndexLookup([k \in DOMAIN data.products.elems |-> data.products.elems[k].sku], sku)

\* the identifiers data.sellers lists
KnownSellerIds == {data.sellers.elems[k].id : k \in DOMAIN data.sellers.elems}
KnownSkus == {data.products.elems[k].sku : k \in DOMAIN data.products.elems}

-----------------------------------------------------------------------------
(* analyzeSalesData: the pass over purchase_records *)

\* the quantity read so far, after the line item it of the current record
SoldAfter(it) ==
    IF record.seller_id \in KnownSellerIds /\ it.sku \in KnownSkus
    THEN [sold EXCEPT ![<<record.seller_id, it.sku>>] = @ + it.quantity]
    ELSE sold

\* the count raised on every accumulator instead of the record's seller alone
IncSalesCount_Every(stats, pos) ==
    [k \in DOMAIN stats |-> [stats[k] EXCEPT !.sales_count = @ + 1]]

\* seller.sales_count += 1
IncSalesCount(stats, pos) == [stats EXCEPT ![pos].sales_count = @ + 1]

CountMatched(seller_id) == IF seller_id \in KnownSellerIds THEN matched + 1 ELSE matched

\* if (!seller) return;
SkipRecord ==
    /\ call.fn = "analyzeSalesData" /\ pc = "records"
    /\ ri < data.purchase_records.length
    /\ \E seller_id \in RecordSellerIds, n \in 0..MaxItems :
        /\ sellerIndex(seller_id).kind = "undefined"
        /\ record' = [seller_id |-> seller_id, length |-> n]
        /\ matched' = CountMatched(seller_id)
    /\ ri' = ri + 1
    /\ UNCHANGED <<call, impl, data, options, pc, error, sellerStats, ii, item,
                   recordRevenue, objectCtor, calls, sold, ret>>

\* seller.sales_count += 1; let recordRevenue = 0;
BeginRecord ==
    /\ call.fn = "analyzeSalesData" /\ pc = "records"
    /\ ri < data.purchase_records.length
    /\ \E seller_id \in RecordSellerIds, n \in 0..MaxItems :
        LET s == sellerIndex(seller_id)
        IN  /\ s.kind # "undefined"
            /\ record' = [seller_id |-> seller_id, length |-> n]
            /\ matched' = CountMatched(seller_id)
            /\ IF s.kind = "own"
               THEN /\ sellerStats' = IncSalesCount(sellerStats, s.pos)
                    /\ UNCHANGED objectCtor
               ELSE /\ objectCtor' = objectCtor \cup {"sales_count"}
                    /\ UNCHANGED sellerStats
    /\ recordRevenue' = Num(0)
    /\ ii' = 0
    /\ pc' = "items"
    /\ UNCHANGED <<call, impl, data, options, error, ri, item, calls, sold, ret>>

\* if (!product) return;
SkipItem ==
    /\ call.fn = "analyzeSalesData" /\ pc = "items"
    /\ ii < record.length
    /\ \E it \in Items :
        /\ productIndex(it.sku).kind = "undefined"
        /\ item' = it
        /\ sold' = SoldAfter(it)
    /\ ii' = ii + 1
    /\ UNCHANGED <<call, impl, data, options, pc, error, sellerStats, ri, record,
                   recordRevenue, objectCtor, calls, matched, ret>>

\* product.purchase_price * item.quantity
Cost(p, it) ==
    IF p.kind = "own"
    THEN Num(data.products.elems[p.pos].purchase_price * it.quantity)
    ELSE NaN

\* the running profit after one line item
AddProfit(running, profit) ==
    IF impl = "part" THEN round2(Add(running, profit)) ELSE Add(running, profit)

\* the record-local subtotal after one line item
AddRevenue(subtotal, revenue) ==
    IF impl = "part" THEN round2(Add(subtotal, revenue))
    ELSE Add(subtotal, ToFixed2(revenue))

\* the running revenue after one record
AddRecordRevenue(running, subtotal) ==
    IF impl = "part" THEN round2(Add(running, subtotal)) ELSE Add(running, subtotal)

\* products_sold after products_sold[sku] has been raised by quantity; a key the
\* tally does not own yet reads as undefined, or as the inherited function
Tally(products_sold, sku, quantity) ==
    LET own == {k \in DOMAIN products_sold : products_sold[k].sku = sku}
    IN  IF own # {}
        THEN [k \in DOMAIN products_sold |->
                IF k \in own
                THEN [products_sold[k] EXCEPT !.quantity = Add(@, Num(quantity))]
                ELSE products_sold[k]]
        ELSE Append(products_sold,
                    [sku |-> sku,
                     quantity |-> IF sku \in ProtoKeys THEN Add(Str(0), Num(quantity))
                                  ELSE Num(quantity)])

ProcessItem ==
    /\ call.fn = "analyzeSalesData" /\ pc = "items"
    /\ ii < record.length
    /\ sellerIndex(record.seller_id).kind = "own"
    /\ \E it \in Items :
        LET s == sellerIndex(record.seller_id)
            p == productIndex(it.sku)
            revenue == calculateSimpleRevenue(it, p)
            profit == Sub(revenue, Cost(p, it))
        IN  /\ p.kind # "undefined"
            /\ item' = it
            /\ sellerStats' =
                 [sellerStats EXCEPT
                    ![s.pos].profit = AddProfit(@, profit),
                    ![s.pos].products_sold = Tally(@, it.sku, it.quantity)]
            /\ recordRevenue' = AddRevenue(recordRevenue, revenue)
            /\ sold' = SoldAfter(it)
    /\ calls' = [calls EXCEPT !.revenue = @ + 1]
    /\ ii' = ii + 1
    /\ UNCHANGED <<call, impl, data, options, pc, error, ri, record, objectCtor,
                   matched, ret>>

\* the seller is the inherited Object function: its profit is written, then
\* seller.products_sold is undefined and reading products_sold[item.sku] throws
ProcessItemThrows ==
    /\ call.fn = "analyzeSalesData" /\ pc = "items"
    /\ ii < record.length
    /\ sellerIndex(record.seller_id).kind = "inherited"
    /\ \E it \in Items :
        LET p == productIndex(it.sku)
            revenue == calculateSimpleRevenue(it, p)
        IN  /\ p.kind # "undefined"
            /\ item' = it
            /\ recordRevenue' = AddRevenue(recordRevenue, revenue)
            /\ sold' = SoldAfter(it)
    /\ objectCtor' = objectCtor \cup {"profit"}
    /\ calls' = [calls EXCEPT !.revenue = @ + 1]
    /\ pc' = "thrown"
    /\ error' = "TypeError"
    /\ UNCHANGED <<call, impl, data, options, sellerStats, ri, record, ii, matched, ret>>

\* seller.revenue += recordRevenue
EndRecord ==
    /\ call.fn = "analyzeSalesData" /\ pc = "items"
    /\ ii = record.length
    /\ LET s == sellerIndex(record.seller_id)
       IN  IF s.kind = "own"
           THEN /\ sellerStats' =
                    [sellerStats EXCEPT
                       ![s.pos].revenue = AddRecordRevenue(@, recordRevenue)]
                /\ UNCHANGED objectCtor
           ELSE /\ objectCtor' = objectCtor \cup {"revenue"}
                /\ UNCHANGED sellerStats
    /\ ri' = ri + 1
    /\ pc' = "records"
    /\ UNCHANGED <<call, impl, data, options, error, record, ii, item, recordRevenue,
                   calls, matched, sold, ret>>

-----------------------------------------------------------------------------
(* analyzeSalesData: ranking, bonuses, top products and the report *)

Perms(n) == {p \in [1..n -> 1..n] : \A i, j \in 1..n : i # j => p[i] # p[j]}

\* the value of the comparator (a, b) => b.key - a.key as the sort reads it: NaN is 0
CompareDesc(ka, kb) == LET d == Sub(kb, ka) IN IF IsNum(d) THEN d.n ELSE 0

\* the comparator orders the keys consistently unless a key that is not a number
\* (it compares equal to every key) stands beside two numbers that differ
Consistent(keys) ==
    ~ /\ \E i \in DOMAIN keys : ~IsNum(keys[i])
      /\ \E j, k \in DOMAIN keys :
            IsNum(keys[j]) /\ IsNum(keys[k]) /\ keys[j].n # keys[k].n

\* the orders Array.prototype.sort may leave: the stable descending order, or any
\* order at all when the comparator is not consistent (implementation-defined)
SortOrders(keys) ==
    LET n == Len(keys)
    IN  IF Consistent(keys)
        THEN {p \in Perms(n) :
                \A i, j \in 1..n :
                    i < j => \/ CompareDesc(keys[p[i]], keys[p[j]]) < 0
                             \/ /\ CompareDesc(keys[p[i]], keys[p[j]]) = 0
                                /\ p[i] < p[j]}
        ELSE Perms(n)

Reorder(seq, p) == [i \in DOMAIN seq |-> seq[p[i]]]

\* sellerStats.sort((a, b) => b.profit - a.profit)
SortByProfit(stats) ==
    {Reorder(stats, p) : p \in SortOrders([k \in DOMAIN stats |-> stats[k].profit])}

Min(a, b) == IF a < b THEN a ELSE b

Slice(seq, n) == SubSeq(seq, 1, Min(n, Len(seq)))

\* Object.entries(products_sold).map(...).sort((a, b) => b.quantity - a.quantity)
\*     .slice(0, 10)
TopProducts(products_sold) ==
    {Slice(Reorder(products_sold, p), TopN) :
        p \in SortOrders([k \in DOMAIN products_sold |-> products_sold[k].quantity])}

Sort ==
    /\ call.fn = "analyzeSalesData" /\ pc = "records"
    /\ ri = data.purchase_records.length
    /\ sellerStats' \in SortByProfit(sellerStats)
    /\ pc' = "sorted"
    /\ UNCHANGED <<call, impl, data, options, error, ri, record, ii, item,
                   recordRevenue, objectCtor, calls, matched, sold, ret>>

\* seller.bonus = calculateBonus(index, totalSellers, seller), rounded in part_000
Bonus(index, totalSellers, seller) ==
    LET b == calculateBonusByProfit(index, totalSellers, seller.profit)
    IN  IF impl = "part" THEN round2(b) ELSE b

AssignBonuses ==
    /\ call.fn = "analyzeSalesData" /\ pc = "sorted"
    /\ LET totalSellers == Len(sellerStats)
           tops == UNION {TopProducts(sellerStats[k].products_sold) :
                            k \in DOMAIN sellerStats}
       IN  /\ \E top \in [DOMAIN sellerStats -> tops] :
                /\ \A k \in DOMAIN sellerStats :
                        top[k] \in TopProducts(sellerStats[k].products_sold)
                /\ sellerStats' =
                     [k \in DOMAIN sellerStats |->
                        [sellerStats[k] EXCEPT
                            !.bonus = Bonus(k - 1, totalSellers, sellerStats[k]),
                            !.top_products = top[k]]]
           /\ calls' =
                [calls EXCEPT !.bonus =
                    [k \in DOMAIN sellerStats |->
                        [index |-> k - 1, total |-> totalSellers,
                         profit |-> sellerStats[k].profit]]]
    /\ pc' = "ranked"
    /\ UNCHANGED <<call, impl, data, options, error, ri, record, ii, item,
                   recordRevenue, objectCtor, matched, sold, ret>>

\* the top_products member of a report entry: the array in part_000; in main.js the
\* unary plus turns the array into a number, 0 when it is empty and NaN otherwise
ReportTopProducts(top_products) ==
    IF impl = "part"
    THEN [isArray |-> TRUE, items |-> top_products, value |-> Undefined]
    ELSE [isArray |-> FALSE, items |-> <<>>,
          value |-> IF Len(top_products) = 0 THEN Num(0) ELSE NaN]

ReportEntry(seller) ==
    [seller_id |-> seller.id,
     name |-> seller.name,
     revenue |-> ToFixed2(seller.revenue),
     profit |-> ToFixed2(seller.profit),
     sales_count |-> seller.sales_count,
     top_products |-> ReportTopProducts(seller.top_products),
     bonus |-> ToFixed2(seller.bonus)]

Report ==
    /\ call.fn = "analyzeSalesData" /\ pc = "ranked"
    /\ ret' = [kind |-> "report", value |-> Num(0),
               report |-> [k \in DOMAIN sellerStats |-> ReportEntry(sellerStats[k])]]
    /\ pc' = "done"
    /\ UNCHANGED <<call, impl, data, options, error, sellerStats, ri, record, ii, item,
                   recordRevenue, objectCtor, calls, matched, sold>>

Next ==
    \/ ThrowInvalidInput
    \/ ThrowOptionsNotObject
    \/ ThrowInvalidOptions
    \/ Prepare
    \/ SkipRecord
    \/ BeginRecord
    \/ SkipItem
    \/ ProcessItem
    \/ ProcessItemThrows
    \/ EndRecord
    \/ Sort
    \/ AssignBonuses
    \/ Report
    \/ CallBonus

Spec == Init /\ [][Next]_vars

-----------------------------------------------------------------------------
(* Properties *)

Analyzing == call.fn = "analyzeSalesData"
Returned == Analyzing /\ ret.kind = "report"

BadCollection(c) == c.shape # "array" \/ c.elems = <<>>
BadData ==
    \/ ~data.present
    \/ BadCollection(data.sellers)
    \/ BadCollection(data.products)
    \/ data.purchase_records.shape # "array"
    \/ data.purchase_records.length = 0
BadOptions ==
    \/ options.shape # "object"
    \/ options.calculateRevenue # "fn"
    \/ options.calculateBonus # "fn"
Untouched == ret.kind = "none" /\ calls = NoCalls /\ sellerStats = <<>>

\* C1: when data is missing, or one of data.sellers, data.products and
\* data.purchase_records is missing, not an array or empty, analyzeSalesData throws
\* the invalid-input error whatever the options are: it returns no report, creates no
\* accumulator and invokes neither strategy.
C1_InvalidInputIsFatal ==
    (Analyzing /\ BadData /\ pc # "start")
        => (pc = "thrown" /\ error = "InvalidInput" /\ Untouched)

C1_Witness ==
    /\ Analyzing /\ pc = "thrown" /\ error = "InvalidInput"
    /\ data.present /\ ~BadCollection(data.sellers)
    /\ data.products = Coll("array", <<>>)
    /\ data.purchase_records.length > 0
    /\ options.shape = "missing"

\* C2: with valid data, when the options are missing, not an object, or lack a
\* callable calculateRevenue or calculateBonus, analyzeSalesData throws one of its two
\* option errors before any accumulator exists, and returns no report.
C2_InvalidStrategyIsFatal ==
    (Analyzing /\ ~BadData /\ BadOptions /\ pc # "start")
        => /\ pc = "thrown"
           /\ error \in {"OptionsNotObject", "InvalidOptions"}
           /\ Untouched

C2_Witness ==
    /\ Analyzing /\ pc = "thrown" /\ error = "InvalidOptions"
    /\ ~BadData
    /\ options.calculateRevenue = "fn" /\ options.calculateBonus = "notfn"

\* value is the share of profit that the first matching tier gives, the tiers read in
\* the order: rank 0, rank 1 or 2, last place, any other rank
TierValue(index, total, profit, value) ==
    /\ IsNum(value)
    /\ IF index = 0 THEN value.n * 20 = profit.n * 3
       ELSE IF index \in {1, 2} THEN value.n * 10 = profit.n
       ELSE IF index = total - 1 THEN value.n = 0
       ELSE value.n * 20 = profit.n

\* the five sellers of the specification's example: rank, profit and bonus in cents
TierExample ==
    { <<0, 50000, 7500>>, <<1, 30000, 3000>>, <<2, 30000, 3000>>, <<3, 10000, 500>>,
      <<4, 5000, 0>> }

C4_SortedByProfit ==
    Returned =>
        /\ \A i \in 1..(Len(ret.report) - 1) :
              Geq(ret.report[i].profit, ret.report[i + 1].profit)
        /\ \A i \in DOMAIN ret.report : calls.bonus[i].index = i - 1

\* C5: in every report entry, top_products is a list of at most 10 {sku, quantity}
\* entries whose quantities are non-increasing.
C5_TopProductsSorted ==
    Returned =>
        \A i \in DOMAIN ret.report :
            LET top == ret.report[i].top_products
            IN  /\ top.isArray
                /\ Len(top.items) <= TopN
                /\ \A j \in 1..(Len(top.items) - 1) :
                      Geq(top.items[j].quantity, top.items[j + 1].quantity)

\* how many elements of data.sellers, and how many report entries, carry id
Listed(id) == Cardinality({k \in DOMAIN data.sellers.elems : data.sellers.elems[k].id = id})
Reported(id) == Cardinality({k \in DOMAIN ret.report : ret.report[k].seller_id = id})

\* C6 as stated: the report has as many entries as data.sellers has distinct
\* identifiers, one entry per identifier.
C6_OnePerDistinctId ==
    Returned =>
        /\ Len(ret.report) = Cardinality(KnownSellerIds)
        /\ \A id \in KnownSellerIds : Reported(id) = 1

\* C6: the report has as many entries as data.sellers has elements, one entry per
\* listed seller: an identifier listed n times has n entries.  This is the number of
\* distinct identifiers exactly when no identifier is listed twice.
C6_OnePerListedSeller ==
    Returned =>
        /\ Len(ret.report) = Len(data.sellers.elems)
        /\ \A id \in SellerIds : Reported(id) = Listed(id)
        /\ (Len(ret.report) = Cardinality(KnownSellerIds))
              <=> (\A id \in KnownSellerIds : Listed(id) = 1)

C6_Witness ==
    Returned /\ Len(ret.report) = 2 /\ Cardinality(KnownSellerIds) = 1

RECURSIVE SumSalesCount(_)
SumSalesCount(stats) ==
    IF stats = <<>> THEN 0
    ELSE stats[Len(stats)].sales_count + SumSalesCount(SubSeq(stats, 1, Len(stats) - 1))

\* the step reads one purchase record (it becomes record')
ReadsRecord == Analyzing /\ pc = "records" /\ (ri' = ri + 1 \/ pc' = "items")
\* the step reads one line item (it becomes item')
ReadsItem == Analyzing /\ pc = "items" /\ (ii' = ii + 1 \/ pc' = "thrown")

SalesCountStep ==
    /\ ReadsRecord =>
          IF record'.seller_id \in KnownSellerIds
          THEN \E k \in DOMAIN sellerStats :
                  /\ sellerStats'[k].sales_count = sellerStats[k].sales_count + 1
                  /\ \A j \in DOMAIN sellerStats \ {k} :
                        sellerStats'[j].sales_count = sellerStats[j].sales_count
          ELSE \A j \in DOMAIN sellerStats :
                  sellerStats'[j].sales_count = sellerStats[j].sales_count
    /\ (Analyzing /\ pc = "items") =>
          \A j \in DOMAIN sellerStats :
              sellerStats'[j].sales_count = sellerStats[j].sales_count

GapStep ==
    /\ (ReadsRecord /\ record'.seller_id \notin KnownSellerIds) =>
          /\ sellerStats' = sellerStats
          /\ pc' = "records"
    /\ (ReadsItem /\ item'.sku \notin KnownSkus) =>
          /\ sellerStats' = sellerStats
          /\ recordRevenue' = recordRevenue
          /\ calls' = calls

\* C8: a referential gap never raises and is skipped: a record whose seller_id is not
\* listed in data.sellers is skipped whole and changes no accumulator; a line item
\* whose SKU is not in data.products changes no accumulator and no subtotal, so that
\* the record's other items accumulate as if it were absent.
C8_GapsAreSkipped ==
    /\ [](Analyzing => error # "TypeError")
    /\ [][GapStep]_vars

\* C9: every running currency total is a whole multiple of 0.01 after every step: each
\* seller's running profit and revenue, the record-local subtotal, and the revenue,
\* profit and bonus of every report entry.
C9_TotalsInCents ==
    Analyzing =>
        /\ IsCents(recordRevenue)
        /\ \A k \in DOMAIN sellerStats :
              IsCents(sellerStats[k].profit) /\ IsCents(sellerStats[k].revenue)
        /\ \A i \in DOMAIN ret.report :
              /\ IsCents(ret.report[i].revenue)
              /\ IsCents(ret.report[i].profit)
              /\ IsCents(ret.report[i].bonus)

Skus(entries) == {entries[k].sku : k \in DOMAIN entries}

\* the tally holds, for the listed identifier id, exactly the SKUs sold with the
\* quantities read
TallyIs(products_sold, id) ==
    /\ \A k \in DOMAIN products_sold :
          /\ products_sold[k].sku \in KnownSkus
          /\ products_sold[k].quantity = Num(sold[<<id, products_sold[k].sku>>])
    /\ \A sku \in KnownSkus : sold[<<id, sku>>] > 0 => sku \in Skus(products_sold)

\* C10: after the pass, the tally of every listed seller holds, per SKU, the sum of the
\* quantities of the line items with that SKU and a catalogue product in the records
\* of that seller; top_products names no SKU twice and, when the seller sold at most
\* 10 distinct SKUs, names every sold SKU with exactly that quantity.
C10_TallyAndTopProducts ==
    /\ (Analyzing /\ pc \in {"sorted", "ranked", "done"}) =>
          \A id \in KnownSellerIds :
              \E k \in DOMAIN sellerStats :
                  sellerStats[k].id = id /\ TallyIs(sellerStats[k].products_sold, id)
    /\ Returned =>
          \A id \in KnownSellerIds :
              \E i \in DOMAIN ret.report :
                  LET top == ret.report[i].top_products
                  IN  /\ ret.report[i].seller_id = id
                      /\ top.isArray
                      /\ \A j, k \in DOMAIN top.items :
                            top.items[j].sku = top.items[k].sku => j = k
                      /\ Cardinality({sku \in KnownSkus : sold[<<id, sku>>] > 0}) <= TopN
                            => /\ TallyIs(top.items, id)
                               /\ Len(top.items) =
                                    Cardinality({sku \in KnownSkus : sold[<<id, sku>>] > 0})

-----------------------------------------------------------------------------
(* What is left of C4, C5, C8, C9 and C10 where they fail.  Numeric says that no  *)
(* line item whose SKU is a property name of Object.prototype has been           *)
(* accumulated: every running profit and every tallied quantity is a number.     *)

Numeric ==
    \A k \in DOMAIN sellerStats :
        /\ IsNum(sellerStats[k].profit)
        /\ \A j \in DOMAIN sellerStats[k].products_sold :
              IsNum(sellerStats[k].products_sold[j].quantity)

\* the report is ordered by profit in both files
SortedByProfitWhenNumeric == Numeric => C4_SortedByProfit

\* part_000 returns sorted lists of at most 10 entries, totals in cents and top
\* products that match the tally
Part000WhenNumeric ==
    (impl = "part" /\ Numeric)
        => C5_TopProductsSorted /\ C9_TotalsInCents /\ C10_TallyAndTopProducts

OrdinaryGapStep ==
    /\ (ReadsRecord /\ record'.seller_id \notin KnownSellerIds \cup ProtoKeys) =>
          /\ sellerStats' = sellerStats
          /\ pc' = "records"
    /\ (ReadsItem /\ item'.sku \notin KnownSkus \cup ProtoKeys) =>
          /\ sellerStats' = sellerStats
          /\ recordRevenue' = recordRevenue
          /\ calls' = calls

\* an unmatched key that Object.prototype does not define is skipped in both files,
\* and the only error of a validated call is the one an inherited seller raises
OrdinaryGapsAreSkipped ==
    /\ [](error = "TypeError" => record.seller_id \in ProtoKeys)
    /\ [][OrdinaryGapStep]_vars

====
